---- MODULE Spec2Model ----
(***************************************************************************)
(* Rhinovate nose editor (src/src/components/nose): the anatomical mesh    *)
(* deformation engine, its React hooks and their event handlers.           *)
(*                                                                         *)
(* Numbers.  The program computes in floating point; the model computes in *)
(* integers.  A coordinate is an integer number of 1/1000 units, so the    *)
(* literal 1.0 of the program is One.  The decimal constants of the        *)
(* program are kept as integer percentages (0.45 is 45) and every          *)
(* comparison of a box-normalised coordinate is cross-multiplied, so it is *)
(* exact.  A division by a zero extent yields NaN in the program (the      *)
(* numerator is then zero as well): every comparison with it is false.     *)
(* Scaled products are rounded down to the grid.  Mesh-local and world     *)
(* coordinates coincide (the mesh's matrixWorld is the identity).          *)
(***************************************************************************)
EXTENDS Integers, Sequences, FiniteSets, TLC

(***************************************************************************)
(* Bounds of the model.                                                    *)
(***************************************************************************)
NumMeshes == 2
NumCatalogue == 3
MaxEdits == 1
MaxPasses == 3
MaxSliderSteps == 2

(***************************************************************************)
(* Program constants.                                                      *)
(***************************************************************************)
One == 1000
ClampPercent == 10
MaxInfluencePercent == 20
FrontFilterZPercent == 50
FrontFilterTipPercent == 30
CrossRangePercent == 30
CrossWeightPercent == 70
ControlPointSizePercent == 4

(***************************************************************************)
(* The editing session: the hooks' state, the geometries on the heap, the  *)
(* scene, and the listeners with the closures they were registered with.   *)
(***************************************************************************)
VARIABLES
    shape,                  \* the mesh the hooks hold (noseMesh); 0 while null
    isEditMode,             \* the isEditMode prop
    geoms,                  \* the BufferGeometry objects
    meshGeom,               \* noseMesh.geometry: the object the mesh refers to
    normalsCurrent,         \* vertex normals were computed after the last write
    noseVertices,           \* useNoseVertexDetector state
    detection,              \* the detector effect's last run: the regions it
                            \* computed and whether its try block threw
    cpStore,                \* the ControlPoint objects of each classification pass
    passes,                 \* classification passes made so far
    controlPoints,          \* AnatomicalMeshEditor state: a pass, 0 for []
    selectedControlPoint,   \* AnatomicalMeshEditor state
    isDragging,             \* AnatomicalMeshEditor state
    listeners,              \* the canvas listeners and the render they closed over
    sceneCPs,               \* passes whose handle proxies are in the scene
    markers,                \* vertices whose markers are in the scene
    selectedVertex,         \* NoseEditor state; NoVertex for null
    docListeners,           \* NoseEditor's document mousemove/mouseup listeners
    viewerDragging,         \* ModelViewer state isDragging
    viewerListeners,        \* ModelViewer's document listeners: the isEditMode
                            \* and isDragging each registered pair closed over
    edits,                  \* geometry-writing steps made so far
    last                    \* history: "miss" when the step into this state was a
                            \* pointer-down whose ray met nothing selectable,
                            \* "warned" when it was an edit call without a mesh,
                            \* "picked" when it was a pointer-down that took a
                            \* vertex by scanning from the mesh intersection

(***************************************************************************)
(* Vectors.                                                                *)
(***************************************************************************)
VAdd(a, b) == <<a[1] + b[1], a[2] + b[2], a[3] + b[3]>>
VSub(a, b) == <<a[1] - b[1], a[2] - b[2], a[3] - b[3]>>
Len2(a) == a[1] * a[1] + a[2] * a[2] + a[3] * a[3]
Dist2(a, b) == Len2(VSub(a, b))
Abs(n) == IF n < 0 THEN -n ELSE n
Min2(a, b) == IF a < b THEN a ELSE b
Max2(a, b) == IF a > b THEN a ELSE b
\* x * p / q rounded toward zero, as the sign-symmetric float product is.
MulDiv(x, p, q) == IF x < 0 THEN -((-x * p) \div q) ELSE (x * p) \div q

\* Math.sqrt, rounded down to the grid (n below 2^31): the root's multiple
\* of 256, then the remainder.
ISqrt(n) ==
    LET hi == CHOOSE h \in 0 .. 180 :
                  (256 * h) * (256 * h) <= n
                     /\ (h = 180 \/ n < (256 * (h + 1)) * (256 * (h + 1)))
        lo == CHOOSE l \in 0 .. 255 :
                  (256 * hi + l) * (256 * hi + l) <= n
                     /\ (l = 255 \/ n < (256 * hi + l + 1) * (256 * hi + l + 1))
    IN 256 * hi + lo

(***************************************************************************)
(* Geometry: the position attribute of a BufferGeometry, vertices 0..N-1.  *)
(***************************************************************************)
\* The loader's meshes: a nose-like surface in a 1000-unit box; a flat sheet
\* (zero extent along z); a surface whose front vertices miss the tight tip
\* window and whose vertex 7 lies farther than 0.2 of the box from every
\* handle.  Every mesh of the session has the same vertex count.
ShapeNose ==
    << <<0, 0, 0>>, <<1000, 1000, 1000>>, <<500, 500, 1000>>, <<500, 560, 940>>,
       <<380, 400, 920>>, <<650, 780, 880>>, <<500, 520, 960>>, <<500, 470, 900>> >>
ShapeFlat ==
    << <<0, 0, 0>>, <<1000, 1000, 0>>, <<500, 500, 0>>, <<500, 560, 0>>,
       <<380, 400, 0>>, <<650, 780, 0>>, <<500, 520, 0>>, <<500, 470, 0>> >>
ShapeBlunt ==
    << <<0, 0, 0>>, <<1000, 1000, 1000>>, <<420, 500, 800>>, <<580, 620, 780>>,
       <<380, 400, 920>>, <<650, 780, 880>>, <<500, 520, 660>>, <<500, 390, 950>> >>
VertexCount == Len(ShapeNose)
Verts == 0 .. (VertexCount - 1)
VertSeq == [i \in 1 .. VertexCount |-> i - 1]

MinOver(pos, k) == CHOOSE m \in {pos[i][k] : i \in Verts} : \A j \in Verts : m <= pos[j][k]
MaxOver(pos, k) == CHOOSE m \in {pos[i][k] : i \in Verts} : \A j \in Verts : m >= pos[j][k]

\* new THREE.Box3().setFromObject(noseMesh); getCenter, getSize.
Box3(pos) ==
    LET lo == <<MinOver(pos, 1), MinOver(pos, 2), MinOver(pos, 3)>>
        hi == <<MaxOver(pos, 1), MaxOver(pos, 2), MaxOver(pos, 3)>>
    IN [min |-> lo, max |-> hi, size |-> VSub(hi, lo),
        center |-> <<(lo[1] + hi[1]) \div 2, (lo[2] + hi[2]) \div 2, (lo[3] + hi[3]) \div 2>>]

MaxExtent(b) == Max2(b.size[1], Max2(b.size[2], b.size[3]))
MinExtent(b) == Min2(b.size[1], Min2(b.size[2], b.size[3]))

\* Comparisons of the normalised coordinate n = (p[k] - (center - size/2)) / size
\* with a percentage; false when the extent is zero (n is NaN).
NGe(b, p, k, pct) == b.size[k] > 0 /\ (p[k] - b.min[k]) * 100 >= pct * b.size[k]
NLe(b, p, k, pct) == b.size[k] > 0 /\ (p[k] - b.min[k]) * 100 <= pct * b.size[k]
NGt(b, p, k, pct) == b.size[k] > 0 /\ (p[k] - b.min[k]) * 100 > pct * b.size[k]
NLt(b, p, k, pct) == b.size[k] > 0 /\ (p[k] - b.min[k]) * 100 < pct * b.size[k]
\* Math.abs(n - 0.5) < pct/100
NNear(b, p, k, pct) ==
    b.size[k] > 0 /\ Abs((p[k] - b.min[k]) * 100 - 50 * b.size[k]) < pct * b.size[k]


(***************************************************************************)
(* RegionClassifier: createAnatomicalControlMesh.                          *)
(***************************************************************************)
\* A placement that creates the tip control point a second time in place of
\* the columella's.
RegionOrderTwoTips ==
    <<"bridge", "tip", "leftNostril", "rightNostril", "leftSidewall", "rightSidewall",
      "tip">>

\* newControlPoints, in the order they are pushed.
RegionOrder ==
    <<"bridge", "tip", "leftNostril", "rightNostril", "leftSidewall", "rightSidewall",
      "columella">>
Regions == {RegionOrder[k] : k \in 1 .. Len(RegionOrder)}

TightWindow(b, p) ==
    /\ NGe(b, p, 1, 45) /\ NLe(b, p, 1, 55)
    /\ NGe(b, p, 2, 45) /\ NLe(b, p, 2, 60)
    /\ NGt(b, p, 3, 70)
RelaxedWindow(b, p) ==
    /\ NGe(b, p, 1, 40) /\ NLe(b, p, 1, 60)
    /\ NGe(b, p, 2, 40) /\ NLe(b, p, 2, 65)
    /\ NGt(b, p, 3, 60)

\* The loop "if (z > maxZ) { maxZ = z; ... }" over a window: the first vertex,
\* in index order, of maximum z.
FrontMost(pos, cand) ==
    CHOOSE i \in cand :
        \A j \in cand : pos[j][3] < pos[i][3] \/ (pos[j][3] = pos[i][3] /\ i <= j)

\* A search without the relaxed step: no vertex in the tight window, and the
\* front centre of the box is taken.
TipSearchNoRelaxed(pos) ==
    LET b == Box3(pos)
        tight == {i \in Verts : TightWindow(b, pos[i])}
    IN IF tight # {} THEN [step |-> "tight", position |-> pos[FrontMost(pos, tight)]]
       ELSE [step |-> "synth", position |-> <<b.center[1], b.center[2], b.max[3]>>]

\* A search that does not start over: maxZ still holds the value the
\* previous run ended with, so only a vertex in front of the previous tip is
\* taken, and without one noseTipPosition stays at new Vector3().
TipSearchCarried(pos) ==
    LET b == Box3(pos)
        carried == controlPoints # 0
        maxZ == IF carried THEN cpStore[controlPoints]["tip"].position[3] ELSE 0
        tight == {i \in Verts : TightWindow(b, pos[i]) /\ (carried => pos[i][3] > maxZ)}
        relaxed == {i \in Verts : RelaxedWindow(b, pos[i])}
    IN IF tight # {} THEN [step |-> "tight", position |-> pos[FrontMost(pos, tight)]]
       ELSE IF carried THEN [step |-> "carried", position |-> <<0, 0, 0>>]
       ELSE IF relaxed # {}
            THEN [step |-> "relaxed", position |-> pos[FrontMost(pos, relaxed)]]
            ELSE [step |-> "synth",
                  position |-> <<b.center[1], b.center[2], b.max[3]>>]

TipSearch(pos) ==
    LET b == Box3(pos)
        tight == {i \in Verts : TightWindow(b, pos[i])}
        relaxed == {i \in Verts : RelaxedWindow(b, pos[i])}
    IN IF tight # {} THEN [step |-> "tight", position |-> pos[FrontMost(pos, tight)]]
       ELSE IF relaxed # {}
            THEN [step |-> "relaxed", position |-> pos[FrontMost(pos, relaxed)]]
            ELSE [step |-> "synth",
                  position |-> <<b.center[1], b.center[2], b.max[3]>>]

\* The offset table of the six non-tip handles, in percent of the box extents.
HandleOffset(region) ==
    CASE region = "bridge" -> <<0, 15, -12>>
      [] region = "tip" -> <<0, 0, 0>>
      [] region = "leftNostril" -> <<-12, -10, -8>>
      [] region = "rightNostril" -> <<12, -10, -8>>
      [] region = "leftSidewall" -> <<-15, 8, -10>>
      [] region = "rightSidewall" -> <<15, 8, -10>>
      [] region = "columella" -> <<0, -8, -6>>

HandlePosition(region, tip, size) ==
    LET o == HandleOffset(region)
    IN <<tip[1] + MulDiv(o[1], size[1], 100), tip[2] + MulDiv(o[2], size[2], 100),
         tip[3] + MulDiv(o[3], size[3], 100)>>

\* createControlPoint: influenceRadius = size * multiplier, in tenths.
RadiusTenths(region) ==
    CASE region \in {"tip", "leftNostril", "rightNostril", "columella"} -> 25
      [] region = "bridge" -> 40
      [] region \in {"leftSidewall", "rightSidewall"} -> 35

InfluenceRadius(region, b) ==
    (MinExtent(b) * ControlPointSizePercent * RadiusTenths(region)) \div 1000

\* The nearest control point, "if (distance < minDistance)": the first of the
\* pushed order at minimum distance, and that distance squared.
Nearest(p, cpos) ==
    LET all == {Dist2(p, cpos[r]) : r \in Regions}
        minDistance2 == CHOOSE m \in all : \A d \in all : m <= d
        k == CHOOSE a \in 1 .. Len(RegionOrder) :
                 /\ Dist2(p, cpos[RegionOrder[a]]) = minDistance2
                 /\ \A c \in 1 .. a - 1 : Dist2(p, cpos[RegionOrder[c]]) # minDistance2
    IN [region |-> RegionOrder[k], distance2 |-> minDistance2]

BridgeWindow(b, p) == NGt(b, p, 2, 55) /\ NNear(b, p, 1, 15) /\ NGt(b, p, 3, 60)
TipWindow(b, p) ==
    NGt(b, p, 3, 75) /\ NNear(b, p, 1, 15) /\ NGt(b, p, 2, 45) /\ NLt(b, p, 2, 60)
NostrilWindow(b, p) == NLt(b, p, 2, 45) /\ NGt(b, p, 3, 60)
ColumellaWindow(b, p) == NLt(b, p, 2, 50) /\ NNear(b, p, 1, 10) /\ NGt(b, p, 3, 65)
SidewallWindow(b, p) == NGt(b, p, 2, 40) /\ NLt(b, p, 2, 60) /\ NGt(b, p, 3, 60)

\* The if / else-if chain of window overrides applied to the nearest region.
WindowOverride(b, p, nearest) ==
    IF BridgeWindow(b, p) THEN "bridge"
    ELSE IF TipWindow(b, p) THEN "tip"
    ELSE IF NostrilWindow(b, p)
         THEN (IF NLt(b, p, 1, 45) THEN "leftNostril"
               ELSE IF NGt(b, p, 1, 55) THEN "rightNostril" ELSE nearest)
    ELSE IF ColumellaWindow(b, p) THEN "columella"
    ELSE IF SidewallWindow(b, p)
         THEN (IF NLt(b, p, 1, 45) THEN "leftSidewall"
               ELSE IF NGt(b, p, 1, 55) THEN "rightSidewall" ELSE nearest)
    ELSE nearest

\* "normalizedZ < 0.5 && normalizedDistanceToTip > 0.3": the vertex is skipped.
FrontFilterSkips(b, p, tip) ==
    /\ NLt(b, p, 3, FrontFilterZPercent)
    /\ MaxExtent(b) > 0
    /\ 100 * Dist2(p, tip)
           > (FrontFilterTipPercent \div 10) * (FrontFilterTipPercent \div 10)
                 * MaxExtent(b) * MaxExtent(b)

\* "minDistance < maxInfluenceDistance", minDistance being the distance to the
\* nearest control point.
WithinMaxInfluence(b, minDistance2) ==
    (100 \div MaxInfluencePercent) * (100 \div MaxInfluencePercent) * minDistance2
        < MaxExtent(b) * MaxExtent(b)

\* One iteration of the assignment loop: the push it makes, as
\* <<region, vertex index>>, or <<>> when the vertex is skipped.
AssignVertex(i, pos, b, tip, cpos) ==
    LET nearest == Nearest(pos[i], cpos)
    IN IF FrontFilterSkips(b, pos[i], tip) THEN <<>>
       ELSE IF WithinMaxInfluence(b, nearest.distance2)
            THEN <<WindowOverride(b, pos[i], nearest.region), i>>
            ELSE <<>>

\* An assignment in which every control point receives every pushed vertex.
PushedToAll(pushes, region) == [k \in 1 .. Len(pushes) |-> pushes[k][2]]

\* The vertexIndices of a region after the loop: its pushes, in loop order.
PushedTo(pushes, region) ==
    LET mine == SelectSeq(pushes, LAMBDA e : e[1] = region)
    IN [k \in 1 .. Len(mine) |-> mine[k][2]]

\* The control points createAnatomicalControlMesh builds from the positions.
createAnatomicalControlMesh(pos) ==
    LET b == Box3(pos)
        tip == TipSearch(pos).position
        cpos == [r \in Regions |-> HandlePosition(r, tip, b.size)]
        pushes == SelectSeq([k \in 1 .. VertexCount |->
                                 AssignVertex(k - 1, pos, b, tip, cpos)],
                            LAMBDA e : e # <<>>)
    IN [r \in Regions |->
          [position |-> cpos[r],
           influenceRadius |-> InfluenceRadius(r, b),
           vertexIndices |-> PushedTo(pushes, r)]]

(***************************************************************************)
(* useNoseVertexDetector: the vertex list the sliders and the vertex       *)
(* picker work on.                                                         *)
(***************************************************************************)
\* Sequence of the vertex indices, in index order, that satisfy Keep.
FilterVerts(Keep(_)) == SelectSeq(VertSeq, Keep)

\* Array.prototype.sort by descending z, stable: an element's place is the
\* number of elements that go before it.
SortByZDesc(pos, seq) ==
    LET Before(a) ==
            Cardinality({c \in 1 .. Len(seq) :
                            \/ pos[seq[c]][3] > pos[seq[a]][3]
                            \/ (pos[seq[c]][3] = pos[seq[a]][3] /\ c < a)})
    IN [k \in 1 .. Len(seq) |-> seq[CHOOSE a \in 1 .. Len(seq) : Before(a) = k - 1]]

Take(seq, n) == SubSeq(seq, 1, Min2(n, Len(seq)))

\* A chain that tries the protruding vertices before the sphere.
FallbackChainProtrudingFirst(noseRegion, noseTipRegion, central, vertexCount) ==
    IF Len(noseRegion) < 20 \/ 10 * Len(noseRegion) > vertexCount * 3
    THEN (IF Len(central) > 0 THEN Take(central, 50)
          ELSE IF Len(noseTipRegion) >= 10 THEN noseTipRegion ELSE noseRegion)
    ELSE noseRegion

\* What the detector hands to setNoseVertices, given the primary region, the
\* sphere around the tip and the central window sorted by descending z.
FallbackChain(noseRegion, noseTipRegion, central, vertexCount) ==
    LET protrudingVertices == Take(central, 50)
    IN IF Len(noseRegion) < 20 \/ 10 * Len(noseRegion) > vertexCount * 3
       THEN (IF Len(noseTipRegion) >= 10 THEN noseTipRegion
             ELSE IF Len(protrudingVertices) > 0 THEN protrudingVertices
             ELSE (IF Len(noseRegion) > 0 THEN noseRegion ELSE <<>>))
       ELSE noseRegion

\* "Array.from({ length: positions.count }, (_, i) => i)"
AllVertices(vertexCount) == [k \in 1 .. vertexCount |-> k - 1]

\* The regions one run of the detector computes from the mesh.
DetectorRegions(pos) ==
    LET b == Box3(pos)
        tip == TipSearch(pos).position
        InPrimary(i) ==
            \/ /\ NGe(b, pos[i], 1, 40) /\ NLe(b, pos[i], 1, 60)
               /\ NGe(b, pos[i], 2, 35) /\ NLe(b, pos[i], 2, 65)
               /\ NGe(b, pos[i], 3, 60)
            \/ MaxExtent(b) > 0
                  /\ 100 * Dist2(pos[i], tip) < MaxExtent(b) * MaxExtent(b)
        InSphere(i) == 100 * Dist2(pos[i], tip) < b.size[1] * b.size[1]
        InCentral(i) ==
            /\ NGe(b, pos[i], 1, 40) /\ NLe(b, pos[i], 1, 60)
            /\ NGe(b, pos[i], 2, 40) /\ NLe(b, pos[i], 2, 60)
    IN [noseRegion |-> FilterVerts(InPrimary), noseTipRegion |-> FilterVerts(InSphere),
        central |-> SortByZDesc(pos, FilterVerts(InCentral)),
        vertexCount |-> VertexCount, threw |-> FALSE]

\* The state before the effect has run.
NoDetection ==
    [noseRegion |-> <<>>, noseTipRegion |-> <<>>, central |-> <<>>, vertexCount |-> 0,
     threw |-> FALSE]

\* The argument of the run's last setNoseVertices call: the chain's choice,
\* or all vertex indices from the catch block.
Detected(run) ==
    IF run.threw THEN AllVertices(run.vertexCount)
    ELSE FallbackChain(run.noseRegion, run.noseTipRegion, run.central, run.vertexCount)

DetectNoseVertices(pos) == Detected(DetectorRegions(pos))


(***************************************************************************)
(* NoseEditor: the vertex markers of the key anatomical points (marker     *)
(* density 'low').                                                         *)
(***************************************************************************)
\* Array.prototype.reduce over a sequence of vertex indices.
Reduce(Step(_, _), seq, init) ==
    LET acc[k \in 0 .. Len(seq)] == IF k = 0 THEN init ELSE Step(acc[k - 1], seq[k])
    IN acc[Len(seq)]

\* Array.prototype.find, or the fallback when nothing matches.
FindFirst(seq, Test(_), fallback) ==
    LET hits == SelectSeq(seq, Test) IN IF hits = <<>> THEN fallback ELSE Head(hits)

\* The vertex indices that carry a marker after the marker effect has run.
MarkerVertices(pos) ==
    LET b == Box3(pos)
        cx2 == b.min[1] + b.max[1]
        cy2 == b.min[2] + b.max[2]
        cz2 == b.min[3] + b.max[3]
        \* 100 * (coordinate - centre) compared with pct * size, doubled.
        Off(i, k, c2) == 100 * (2 * pos[i][k] - c2)
        InRegion(i) ==
            /\ Off(i, 1, cx2) >= -16 * b.size[1] /\ Off(i, 1, cx2) <= 16 * b.size[1]
            /\ Off(i, 2, cy2) >= -10 * b.size[2] /\ Off(i, 2, cy2) <= 40 * b.size[2]
            /\ Off(i, 3, cz2) >= 20 * b.size[3] /\ Off(i, 3, cz2) <= 100 * b.size[3]
        data == FilterVerts(InRegion)
        first == data[1]
        Tip(prev, cur) == IF pos[cur][3] > pos[prev][3] THEN cur ELSE prev
        Bridge(prev, cur) ==
            IF /\ Abs(Off(cur, 1, cx2)) < 6 * b.size[1]
               /\ Off(cur, 2, cy2) > 10 * b.size[2]
               /\ pos[cur][2] > pos[prev][2]
            THEN cur ELSE prev
        IsLeft2(i) == Off(i, 1, cx2) < -4 * b.size[1]
        IsRight2(i) == Off(i, 1, cx2) > 4 * b.size[1]
        IsLeft3(i) == Off(i, 1, cx2) < -6 * b.size[1]
        IsRight3(i) == Off(i, 1, cx2) > 6 * b.size[1]
        Lower(i) == Off(i, 2, cy2) < -4 * b.size[2]
        Upper(i) == pos[i][2] * 2 > cy2
        Left(prev, cur) ==
            IF Lower(cur) /\ IsLeft2(cur) /\ pos[cur][1] < pos[prev][1] THEN cur ELSE prev
        Right(prev, cur) ==
            IF Lower(cur) /\ IsRight2(cur) /\ pos[cur][1] > pos[prev][1] THEN cur ELSE prev
        LeftBridge(prev, cur) == IF Upper(cur) /\ IsLeft3(cur) THEN cur ELSE prev
        RightBridge(prev, cur) == IF Upper(cur) /\ IsRight3(cur) THEN cur ELSE prev
        tipV == Reduce(Tip, data, first)
        bridgeV == Reduce(Bridge, data, first)
        \* twice the midpoint of bridge and tip; distances to it are doubled alike
        mid2 == VAdd(pos[bridgeV], pos[tipV])
        Twice(i) == <<2 * pos[i][1], 2 * pos[i][2], 2 * pos[i][3]>>
        Mid(prev, cur) ==
            IF Dist2(Twice(cur), mid2) < Dist2(Twice(prev), mid2) THEN cur ELSE prev
    IN IF data = <<>> THEN {}
       ELSE { tipV, bridgeV,
              Reduce(Left, data, FindFirst(data, IsLeft2, first)),
              Reduce(Right, data, FindFirst(data, IsRight2, first)),
              Reduce(LeftBridge, data,
                     FindFirst(data, LAMBDA i : IsLeft3(i) /\ Upper(i), first)),
              Reduce(RightBridge, data,
                     FindFirst(data, LAMBDA i : IsRight3(i) /\ Upper(i), first)),
              Reduce(Mid, data, first) }

(***************************************************************************)
(* A geometry: positions, the vertices whose coordinates have become NaN,  *)
(* and the cached bounding sphere radius (NoSphere while it is null).      *)
(***************************************************************************)
NoSphere == 0 - 1
ISqrtUp(n) == LET s == ISqrt(n) IN IF s * s = n THEN s ELSE s + 1

\* BufferGeometry.computeBoundingSphere: centred on the box centre.
SphereRadius(pos) ==
    LET b == Box3(pos)
        c2 == VAdd(b.min, b.max)
        far == CHOOSE i \in Verts :
                   \A j \in Verts :
                       Dist2(<<2 * pos[j][1], 2 * pos[j][2], 2 * pos[j][3]>>, c2)
                         <= Dist2(<<2 * pos[i][1], 2 * pos[i][2], 2 * pos[i][3]>>, c2)
    IN ISqrt(Dist2(<<2 * pos[far][1], 2 * pos[far][2], 2 * pos[far][3]>>, c2)) \div 2

(***************************************************************************)
(* DeformationEngine: handleMouseMove's clamp and updateInfluencedVertices. *)
(***************************************************************************)
NaNFactor == 0 - 1

\* "boundingSphere?.radius || 1.0"
MaxMovement(sphere) == IF sphere > 0 THEN sphere ELSE One

\* The move vector after "if (length > maxMovement * 0.1) normalize, scale".
ClampMove(move, sphere) ==
    LET m == MaxMovement(sphere)
        k == 100 \div ClampPercent
    IN IF k * k * Len2(move) > m * m
       THEN LET len == ISqrtUp(Len2(move))
            IN <<MulDiv(move[1], m, k * len), MulDiv(move[2], m, k * len),
                 MulDiv(move[3], m, k * len)>>
       ELSE move

\* max(0, 1 - (d / r)^2) in thousandths; NaN when d and r are both zero.
InfluenceFactor(d2, r) ==
    IF r = 0 THEN (IF d2 = 0 THEN NaNFactor ELSE 0)
    ELSE IF d2 >= r * r THEN 0 ELSE 1000 - (d2 * 1000) \div (r * r)

\* max(0, 1 - d / r) in thousandths; NaN when d and r are both zero.
LocalInfluence(d2, r) ==
    IF r = 0 THEN (IF d2 = 0 THEN NaNFactor ELSE 0)
    ELSE IF d2 >= r * r THEN 0 ELSE 1000 - (ISqrt(d2) * 1000) \div r

\* influence * localInfluence * 0.7
CombinedInfluence(influence, localInfluence) ==
    IF influence = NaNFactor \/ localInfluence = NaNFactor THEN NaNFactor
    ELSE (((influence * localInfluence) \div 1000) * CrossWeightPercent) \div 100

Scaled(move, factor) ==
    <<MulDiv(move[1], factor, 1000), MulDiv(move[2], factor, 1000),
      MulDiv(move[3], factor, 1000)>>

\* positions.setXYZ(v, x + move.x * f, y + move.y * f, z + move.z * f), on
\* the coordinates of vertex v: [pos, nan].
MoveVertex(vertex, move, factor) ==
    IF factor = NaNFactor \/ vertex.nan
    THEN [vertex EXCEPT !.nan = TRUE]
    ELSE [vertex EXCEPT !.pos = VAdd(@, Scaled(move, factor))]

\* The writes of one drag step, in program order: the selected control
\* point's own vertices, then those of every other control point in range.
DirectTasks(cp) ==
    [k \in 1 .. Len(cp.vertexIndices) |->
        [v |-> cp.vertexIndices[k], direct |-> TRUE, centre |-> cp.position,
         radius |-> cp.influenceRadius, influence |-> 1000]]

CrossTasks(cp, other, modelSize) ==
    LET range == (modelSize * CrossRangePercent) \div 100
        d2 == Dist2(other.position, cp.position)
        influence ==
            IF range = 0 THEN NaNFactor ELSE 1000 - (d2 * 1000) \div (range * range)
    IN IF d2 > range * range THEN <<>>
       ELSE [k \in 1 .. Len(other.vertexIndices) |->
               [v |-> other.vertexIndices[k], direct |-> FALSE, centre |-> other.position,
                radius |-> other.influenceRadius, influence |-> influence]]

TaskFactor(p, t) ==
    IF t.direct THEN InfluenceFactor(Dist2(p, t.centre), t.radius)
    ELSE CombinedInfluence(t.influence, LocalInfluence(Dist2(p, t.centre), t.radius))

\* A write reads and writes the coordinates of its own vertex only: the
\* writes to one vertex, in program order.
RunTask(vertex, t, move) == MoveVertex(vertex, move, TaskFactor(vertex.pos, t))
RunTasks(vertex, tasks, move) ==
    LET after[k \in 0 .. Len(tasks)] ==
            IF k = 0 THEN vertex ELSE RunTask(after[k - 1], tasks[k], move)
    IN after[Len(tasks)]

RECURSIVE Concat(_)
Concat(seqs) == IF seqs = <<>> THEN <<>> ELSE Head(seqs) \o Concat(Tail(seqs))

\* updateInfluencedVertices(controlPoint, moveVector); cp carries the position
\* the handle has after the move, others is controlPoints.filter(cp !== it).
updateInfluencedVertices(geo, cp, others, move) ==
    LET modelSize == MaxExtent(Box3(geo.pos))
        cross == Concat([k \in 1 .. Len(others) |-> CrossTasks(cp, others[k], modelSize)])
        tasks == DirectTasks(cp) \o cross
        end == [v \in Verts |->
                  RunTasks([pos |-> geo.pos[v], nan |-> v \in geo.nan],
                           SelectSeq(tasks, LAMBDA t : t.v = v), move)]
    IN [pos |-> [v \in Verts |-> end[v].pos], nan |-> {v \in Verts : end[v].nan}]

\* The effects of updateInfluencedVertices on the geometry, in program order:
\* one setXYZ per owned vertex, one per vertex of every other control point
\* in range, then "noseMesh.geometry.computeVertexNormals()".
SetXYZ == "setXYZ"
ComputeVertexNormals == "computeVertexNormals"
Writes(tasks) == [k \in 1 .. Len(tasks) |-> SetXYZ]

updateEffectsNormalsBetweenLoops(cp, others, modelSize) ==
    Writes(DirectTasks(cp)) \o <<ComputeVertexNormals>>
      \o Writes(Concat([k \in 1 .. Len(others) |-> CrossTasks(cp, others[k], modelSize)]))

updateEffects(cp, others, modelSize) ==
    Writes(DirectTasks(cp))
      \o Writes(Concat([k \in 1 .. Len(others) |-> CrossTasks(cp, others[k], modelSize)]))
      \o <<ComputeVertexNormals>>

\* Whether the normals agree with the positions once the effects have run.
NormalsCurrentAfter(effects, current) ==
    LET LastOf(e) ==
            LET at == {k \in 1 .. Len(effects) : effects[k] = e}
            IN IF at = {} THEN 0 ELSE CHOOSE k \in at : \A j \in at : j <= k
    IN IF LastOf(SetXYZ) = 0 THEN current \/ LastOf(ComputeVertexNormals) > 0
       ELSE LastOf(ComputeVertexNormals) > LastOf(SetXYZ)

(***************************************************************************)
(* useNoseAdjustments: the three sliders.  An amount is in hundredths: the *)
(* controls call adjust(value / 50) with value in [-10, 10].               *)
(***************************************************************************)
SliderAmounts == {20}

InSeq(seq, v) == \E k \in 1 .. Len(seq) : seq[k] = v

\* 2 * |x - center.x|, so that xDistanceNormalized = XOff2 / size.x
XOff2(b, p) == Abs(2 * p[1] - (b.min[1] + b.max[1]))
\* amount * weight * size
Amplified(amount, weightPercent, extent) == MulDiv(amount * weightPercent, extent, 10000)

adjustNoseBridge(pos, noseVerts, amount) ==
    LET b == Box3(pos)
        amplifiedAmount == Amplified(amount, 30, b.size[2])
        InBridge(i) ==
            /\ b.size[1] > 0 /\ 2 * XOff2(b, pos[i]) < b.size[1]
            /\ NGt(b, pos[i], 2, 50)
        falloff(i) == 1000 - (XOff2(b, pos[i]) * 1000) \div b.size[1]
    IN [i \in Verts |->
          IF InSeq(noseVerts, i) /\ InBridge(i)
          THEN [pos[i] EXCEPT ![2] = @ + MulDiv(amplifiedAmount, falloff(i), 1000)]
          ELSE pos[i]]

adjustNoseTip(pos, noseVerts, amount) ==
    LET b == Box3(pos)
        amplifiedAmount == Amplified(amount, 50, b.size[3])
        maxZ == CHOOSE z \in {pos[noseVerts[k]][3] : k \in 1 .. Len(noseVerts)} :
                    \A k \in 1 .. Len(noseVerts) : pos[noseVerts[k]][3] <= z
        zBack(i) == maxZ - pos[i][3]
        isCentralVertex(i) == b.size[1] > 0 /\ 2 * XOff2(b, pos[i]) < b.size[1]
        isInYRange(i) == NGt(b, pos[i], 2, 20) /\ NLt(b, pos[i], 2, 90)
        isNearFront(i) == b.size[3] > 0 /\ 4 * zBack(i) < b.size[3]
        isFrontMostVertex(i) == b.size[3] > 0 /\ 20 * zBack(i) < b.size[3]
        falloff(i) ==
            IF isFrontMostVertex(i) THEN 1000
            ELSE ((1000 - (XOff2(b, pos[i]) * 1000) \div b.size[1])
                    * (1000 - (2 * zBack(i) * 1000) \div b.size[3])) \div 1000
    IN [i \in Verts |->
          IF /\ InSeq(noseVerts, i)
             /\ (isCentralVertex(i) /\ isInYRange(i) /\ isNearFront(i))
                   \/ isFrontMostVertex(i)
          THEN [pos[i] EXCEPT ![3] = @ + MulDiv(amplifiedAmount, falloff(i), 1000)]
          ELSE pos[i]]

adjustNostrilWidth(pos, noseVerts, amount) ==
    LET b == Box3(pos)
        amplifiedAmount == Amplified(amount, 30, b.size[1])
        InNostril(i) ==
            /\ b.size[1] > 0 /\ 5 * XOff2(b, pos[i]) > b.size[1]
            /\ NGt(b, pos[i], 2, 20) /\ NLt(b, pos[i], 2, 60)
            /\ NGt(b, pos[i], 3, 50)
        falloff(i) ==
            (((XOff2(b, pos[i]) * 1000) \div b.size[1])
               * (1000 - Abs(((pos[i][2] - b.min[2]) * 1000) \div b.size[2] - 400)))
              \div 1000
        direction(i) == IF 2 * pos[i][1] > b.min[1] + b.max[1] THEN 1 ELSE 0 - 1
    IN [i \in Verts |->
          IF InSeq(noseVerts, i) /\ InNostril(i)
          THEN [pos[i] EXCEPT
                  ![1] = @ + direction(i) * MulDiv(amplifiedAmount, falloff(i), 1000)]
          ELSE pos[i]]

(***************************************************************************)
(* The editing session: its actions.                                       *)
(***************************************************************************)
vars ==
    <<shape, isEditMode, geoms, meshGeom, normalsCurrent, noseVertices,
      detection, cpStore, passes, controlPoints, selectedControlPoint, isDragging,
      listeners, sceneCPs, markers, selectedVertex, docListeners, viewerDragging, viewerListeners, edits,
      last>>

GeomIds == {"loaded", "originalA", "originalD", "reset"}
NoCP == <<>>
NoVertex == 0 - 1
Origin == <<0, 0, 0>>
NoGeometry == [pos |-> [i \in Verts |-> Origin], nan |-> {}, sphere |-> NoSphere]
NoPass ==
    [r \in Regions |-> [position |-> Origin, influenceRadius |-> 0, vertexIndices |-> <<>>]]
NoListeners == [on |-> FALSE, cps |-> 0, sel |-> NoCP, drag |-> FALSE]

\* The loader's output for catalogue entry m.
ShapeOf(m) ==
    LET s == IF m % 3 = 1 THEN ShapeNose ELSE IF m % 3 = 2 THEN ShapeFlat ELSE ShapeBlunt
    IN [i \in Verts |-> s[i + 1]]

Live == geoms[meshGeom]
\* BufferGeometry.clone(): a deep copy, bounding sphere included
Clone(geo) == geo
CP(ref) == cpStore[ref[1]][ref[2]]
\* The array a pass hands to setControlPoints: one entry per push of
\* createAnatomicalControlMesh, in push order.
ControlPointList(g) ==
    [k \in 1 .. Len(RegionOrder) |->
        [region |-> RegionOrder[k], position |-> cpStore[g][RegionOrder[k]].position,
         influenceRadius |-> cpStore[g][RegionOrder[k]].influenceRadius,
         vertexIndices |-> cpStore[g][RegionOrder[k]].vertexIndices]]

NoStep == "other"
\* How a call of an edit function made without a mesh ends: console.warn(...)
\* and a plain return; the caller gets undefined, as after a successful call.
WarnedAndReturned == "warned"
\* A pointer-down whose scan from the mesh intersection accepted a vertex.
PickedOnMesh == "picked"
\* The ControlPoint objects some state or closure still refers to; the
\* others are garbage.
Collect(store, keep) == [g \in 1 .. MaxPasses |-> IF g \in keep THEN store[g] ELSE NoPass]
Gen(ref) == IF ref = NoCP THEN 0 ELSE ref[1]
Referenced(cps, sel, lst) == {cps, Gen(sel), lst.cps, Gen(lst.sel)}

Init ==
    /\ shape = 0
    /\ isEditMode = FALSE
    /\ geoms = [g \in GeomIds |-> NoGeometry]
    /\ meshGeom = "loaded"
    /\ normalsCurrent = TRUE
    /\ noseVertices = <<>>
    /\ detection = NoDetection
    /\ cpStore = [g \in 1 .. MaxPasses |-> NoPass]
    /\ passes = 0
    /\ controlPoints = 0
    /\ selectedControlPoint = NoCP
    /\ isDragging = FALSE
    /\ listeners = NoListeners
    /\ sceneCPs = {}
    /\ markers = {}
    /\ selectedVertex = NoVertex
    /\ docListeners = FALSE
    /\ viewerDragging = FALSE
    /\ viewerListeners = {}
    /\ edits = 0
    /\ last = NoStep

\* The effect on [noseMesh, scene, isEditMode] of AnatomicalMeshEditor, run
\* after a render in which one of them changed: the previous run's cleanup,
\* then the body.  hasMesh, edit and pos are the values of the new render.
ControlMeshEffect(hasMesh, edit, pos) ==
    LET afterCleanup == IF listeners.on THEN sceneCPs \ {listeners.cps} ELSE sceneCPs
    IN IF hasMesh /\ edit
       THEN \* cleanupControlPoints(); createAnatomicalControlMesh(); addEventListener
            /\ passes' = passes + 1
            /\ sceneCPs' = (afterCleanup \ {controlPoints}) \cup {passes + 1}
            /\ controlPoints' = passes + 1
            /\ selectedControlPoint' = NoCP
            /\ listeners' = [on |-> TRUE, cps |-> controlPoints,
                              sel |-> selectedControlPoint, drag |-> isDragging]
            /\ cpStore' =
                  Collect([cpStore EXCEPT ![passes + 1] = createAnatomicalControlMesh(pos)],
                          Referenced(controlPoints', selectedControlPoint', listeners'))
       ELSE /\ UNCHANGED passes
            /\ listeners' = NoListeners
            /\ IF ~edit /\ controlPoints # 0
               THEN /\ sceneCPs' = afterCleanup \ {controlPoints}
                    /\ controlPoints' = 0
                    /\ selectedControlPoint' = NoCP
               ELSE /\ sceneCPs' = afterCleanup
                    /\ controlPoints' = IF listeners.on THEN 0 ELSE controlPoints
                    /\ selectedControlPoint' =
                           IF listeners.on THEN NoCP ELSE selectedControlPoint
            /\ cpStore' =
                  Collect(cpStore, Referenced(controlPoints', selectedControlPoint', listeners'))

\* The marker effect of NoseEditor, run after a render in which isEditMode,
\* noseMesh or noseVertices changed.
MarkerEffect(hasMesh, edit, pos) ==
    markers' = IF hasMesh /\ edit THEN MarkerVertices(pos) ELSE {}

\* A new model arrives (OBJLoader and STLLoader leave the bounding sphere
\* null): both hooks find its first mesh, clone its geometry and store the
\* mesh; the detector lists the nose vertices; the effects that depend on
\* noseMesh run again.
\* m names the model, pos is the position attribute of its first mesh and
\* run is what the detector's effect computes for it.
LoadMesh(m, pos, run) ==
    LET loaded == [pos |-> pos, nan |-> {}, sphere |-> NoSphere]
    IN /\ isEditMode => passes < MaxPasses
       /\ shape' = m
       /\ geoms' = [g \in GeomIds |->
                      IF g = "loaded" THEN loaded
                      ELSE IF g = "reset" THEN NoGeometry ELSE Clone(loaded)]
       /\ meshGeom' = "loaded"
       /\ detection' = run
       /\ noseVertices' = Detected(run)
       /\ ControlMeshEffect(TRUE, isEditMode, loaded.pos)
       /\ MarkerEffect(TRUE, isEditMode, loaded.pos)
       /\ last' = NoStep
       /\ UNCHANGED <<isEditMode, normalsCurrent, isDragging, selectedVertex,
                      docListeners, viewerDragging, viewerListeners, edits>>

LoadModel(m, run) == LoadMesh(m, ShapeOf(m), run)
SetModel(m) == LoadModel(m, DetectorRegions(ShapeOf(m)))

ToggleEditMode ==
    /\ (~isEditMode /\ shape # 0) => (passes < MaxPasses /\ Live.nan = {})
    /\ isEditMode' = ~isEditMode
    /\ ControlMeshEffect(shape # 0, ~isEditMode, Live.pos)
    /\ MarkerEffect(shape # 0, ~isEditMode, Live.pos)
    /\ last' = NoStep
    /\ UNCHANGED <<shape, geoms, meshGeom, normalsCurrent, noseVertices, detection,
                   isDragging, selectedVertex, docListeners, viewerDragging,
                   viewerListeners, edits>>

\* The renderer's frustum test fills the bounding sphere of the geometry it
\* draws when it is still null.
RenderFrame ==
    /\ shape # 0 /\ Live.sphere = NoSphere /\ Live.nan = {}
    /\ geoms' = [geoms EXCEPT ![meshGeom].sphere = SphereRadius(Live.pos)]
    /\ last' = NoStep
    /\ UNCHANGED <<shape, isEditMode, meshGeom, normalsCurrent, noseVertices, detection,
                   cpStore, passes, controlPoints, selectedControlPoint, isDragging,
                   listeners, sceneCPs, markers, selectedVertex, docListeners,
                   viewerDragging, viewerListeners, edits>>

(***************************************************************************)
(* Pointer events.  A ray is given by what lies on it: at most one handle  *)
(* proxy (a ControlPoint's sphere), at most one vertex marker, and the     *)
(* point where it meets the face mesh (the position of a vertex).          *)
(***************************************************************************)
FarVertex == 1
NearVertex == 2
MarkedVertex == 2
ClickRegions == {"tip"}
\* The proxies a ray can meet: those in the scene and those the registered
\* handler still holds.
Clickable == ((sceneCPs \cup {listeners.cps}) \ {0}) \X ClickRegions
Ray(c, k, h) == [cp |-> c, marker |-> k, mesh |-> h]
\* A ray through a proxy or a marker also meets the face they sit on.
Rays ==
    {Ray(NoCP, NoVertex, NoVertex)}
      \cup (IF shape = 0 THEN {}
            ELSE {Ray(NoCP, NoVertex, FarVertex), Ray(NoCP, NoVertex, NearVertex)}
                   \cup {Ray(NoCP, k, k) : k \in markers \cap {MarkedVertex}}
                   \cup {Ray(c, NoVertex, NearVertex) : c \in Clickable})

\* A picker that takes the closest nose vertex whatever its distance.
PickClosest(pos, point) ==
    IF noseVertices = <<>> THEN NoVertex
    ELSE LET all == {Dist2(pos[noseVertices[k]], point) : k \in 1 .. Len(noseVertices)}
             closest == CHOOSE m \in all : \A d \in all : m <= d
         IN noseVertices[CHOOSE k \in 1 .. Len(noseVertices) :
                             Dist2(pos[noseVertices[k]], point) = closest]

\* A scan over every vertex of the mesh instead of noseVertices.
ClosestOfAllVertices(pos, point) ==
    CHOOSE a \in Verts :
        \A c \in Verts :
            \/ Dist2(pos[c], point) > Dist2(pos[a], point)
            \/ (Dist2(pos[c], point) = Dist2(pos[a], point) /\ a <= c)

\* The scan of handleMouseDownLocal: the first vertex of noseVertices at
\* minimum distance from the intersection point, accepted below 0.1.
ClosestNoseVertex(pos, point) ==
    LET k == CHOOSE a \in 1 .. Len(noseVertices) :
                 \A c \in 1 .. Len(noseVertices) :
                     \/ Dist2(pos[noseVertices[c]], point) > Dist2(pos[noseVertices[a]], point)
                     \/ (Dist2(pos[noseVertices[c]], point) = Dist2(pos[noseVertices[a]], point)
                         /\ a <= c)
    IN noseVertices[k]
PickVertex(pos, point) ==
    IF noseVertices = <<>> THEN NoVertex
    ELSE IF 100 * Dist2(pos[ClosestNoseVertex(pos, point)], point) < One * One
         THEN ClosestNoseVertex(pos, point) ELSE NoVertex

\* AnatomicalMeshEditor.handleMouseDown, as registered: it intersects the
\* control points of the render it closed over.
AnatomicalHit(ray) == listeners.on /\ ray.cp # NoCP /\ ray.cp[1] = listeners.cps

\* NoseEditor's mouseDownHandler calls handleMouseDownLocal when
\* "isEditMode && noseMesh && camera && scene"; that one intersects the
\* markers first and returns on a hit, else it intersects the mesh.
MarkerHit(ray) == isEditMode /\ shape # 0 /\ ray.marker # NoVertex
MeshConsulted(ray) == isEditMode /\ shape # 0 /\ ray.marker = NoVertex
Picked(ray) ==
    IF MeshConsulted(ray) /\ ray.mesh # NoVertex
    THEN PickVertex(Live.pos, Live.pos[ray.mesh]) ELSE NoVertex

\* mousedown on the canvas: AnatomicalMeshEditor's listener and NoseEditor's
\* mouseDownHandler (re-registered after every render).
MouseDown(ray) ==
    LET markerHit == MarkerHit(ray)
        consulted == MeshConsulted(ray)
        picked == Picked(ray)
    IN /\ ray.mesh # NoVertex => Live.nan = {}
       /\ selectedControlPoint' = IF AnatomicalHit(ray) THEN ray.cp ELSE selectedControlPoint
       /\ isDragging' = IF AnatomicalHit(ray) THEN TRUE ELSE isDragging
       /\ selectedVertex' = IF markerHit THEN ray.marker
                             ELSE IF picked # NoVertex THEN picked ELSE selectedVertex
       /\ docListeners' = (docListeners \/ markerHit \/ picked # NoVertex)
       /\ cpStore' =
             Collect(cpStore, Referenced(controlPoints, selectedControlPoint', listeners))
       \* Mesh.raycast computes the bounding sphere when it is null
       /\ geoms' = IF consulted /\ Live.sphere = NoSphere /\ Live.nan = {}
                    THEN [geoms EXCEPT ![meshGeom].sphere = SphereRadius(Live.pos)]
                    ELSE geoms
       /\ last' = IF ray.cp = NoCP /\ ray.marker = NoVertex /\ picked = NoVertex
                  THEN "miss"
                  ELSE IF ray.cp = NoCP /\ picked # NoVertex THEN PickedOnMesh ELSE NoStep
       /\ UNCHANGED <<shape, isEditMode, meshGeom, normalsCurrent, noseVertices,
                      detection, passes, controlPoints, listeners, sceneCPs, markers,
                      viewerDragging, viewerListeners, edits>>

\* The points a pointer ray can meet the drag plane in: beyond the clamp and
\* within it from the tip handle of the nose, and a vertex of the flat sheet.
Targets == {<<500, 470, 900>>, <<500, 520, 960>>, <<500, 470, 0>>}

\* controlPoints.filter(cp => cp !== controlPoint), of the closed-over render
OtherControlPoints(sel) ==
    IF listeners.cps = 0 THEN <<>>
    ELSE LET refs == SelectSeq([k \in 1 .. Len(RegionOrder) |-> <<listeners.cps, RegionOrder[k]>>],
                               LAMBDA ref : ref # sel)
         IN [k \in 1 .. Len(refs) |-> CP(refs[k])]


\* AnatomicalMeshEditor.handleMouseMove, as registered: it passes
\* "if (!isDragging || !selectedControlPoint || !camera || !noseMesh) return"
\* with the values of the render it closed over.
DragReady == listeners.on /\ listeners.drag /\ listeners.sel # NoCP /\ shape # 0
\* "moveVector = targetPosition - controlPoint.position", clamped
MoveVector(target) == ClampMove(VSub(target, CP(listeners.sel).position), Live.sphere)
\* "selectedControlPoint.position.copy(targetPosition)"
MovedControlPoint(target) == [CP(listeners.sel) EXCEPT !.position = target]

DragStep(target) ==
    LET sel == listeners.sel
        after == updateInfluencedVertices([pos |-> Live.pos, nan |-> Live.nan],
                                          MovedControlPoint(target),
                                          OtherControlPoints(sel), MoveVector(target))
    IN /\ cpStore' = [cpStore EXCEPT ![sel[1]][sel[2]] = MovedControlPoint(target)]
       /\ geoms' = [geoms EXCEPT ![meshGeom].pos = after.pos, ![meshGeom].nan = after.nan]
       /\ normalsCurrent' = NormalsCurrentAfter(
                                 updateEffects(MovedControlPoint(target),
                                               OtherControlPoints(sel),
                                               MaxExtent(Box3(Live.pos))),
                                 normalsCurrent)
       /\ edits' = edits + 1
       /\ last' = NoStep

\* NoseEditor's state useAnatomicalEditor: initially true, and its only
\* setter, toggleEditorMode, has no caller.
useAnatomicalEditor == TRUE

\* mousemove: AnatomicalMeshEditor's listener on the canvas, and NoseEditor's
\* handleMouseMove on the document while it is registered; the latter begins
\* with "if (useAnatomicalEditor) return", so its vertex drag never runs.
MouseMove(target) ==
    /\ useAnatomicalEditor
    /\ UNCHANGED <<shape, isEditMode, meshGeom, noseVertices, detection, passes,
                   controlPoints, selectedControlPoint, isDragging, listeners, sceneCPs,
                   markers, selectedVertex, docListeners, viewerDragging,
                   viewerListeners>>
    /\ IF DragReady /\ target # <<>>
       THEN edits < MaxEdits /\ Live.nan = {} /\ DragStep(target)
       ELSE UNCHANGED <<geoms, normalsCurrent, cpStore, edits, last>>

\* ModelViewer.handleDocumentMouseUp as one registered pair sees it:
\* "if (isEditMode && isDragging)" with the values of the render it was
\* created in.
ViewerUpActs(closure) == closure.edit /\ closure.drag

\* mouseup: AnatomicalMeshEditor.handleMouseUp on the canvas, NoseEditor's
\* handleMouseUp on the document while it is registered, and every
\* handleDocumentMouseUp that ModelViewer has registered; one that acts calls
\* setIsDragging(false) and removes its own pair.
MouseUp ==
    /\ isDragging' = IF listeners.on THEN FALSE ELSE isDragging
    /\ docListeners' = FALSE
    /\ viewerDragging' = (viewerDragging /\ \A c \in viewerListeners : ~ViewerUpActs(c))
    /\ viewerListeners' = {c \in viewerListeners : ~ViewerUpActs(c)}
    /\ normalsCurrent' = (normalsCurrent \/ (docListeners /\ shape # 0))
    /\ last' = NoStep
    /\ UNCHANGED <<shape, isEditMode, geoms, meshGeom, noseVertices, detection, cpStore,
                   passes, controlPoints, selectedControlPoint, listeners, sceneCPs,
                   markers, selectedVertex, edits>>

\* A click on the canvas, ModelViewer.handleCanvasClick: in edit mode it
\* sets isDragging, calls the handleMouseDown it took from window.noseEditor
\* when NoseEditor was mounted, and registers its document handlers.  That
\* handleMouseDown is the first render's: it finds the markers in the scene,
\* and scans an empty noseVertices when the ray meets the mesh only.
ClickedIdle == "clicked"
ClickedDragging == "clicked while dragging"
CanvasClick(ray) ==
    /\ isEditMode
    /\ ray.mesh # NoVertex => Live.nan = {}
    /\ viewerDragging' = TRUE
    /\ viewerListeners' =
          viewerListeners \cup {[edit |-> isEditMode, drag |-> viewerDragging]}
    /\ selectedVertex' = IF MarkerHit(ray) THEN ray.marker ELSE selectedVertex
    /\ docListeners' = (docListeners \/ MarkerHit(ray))
    /\ geoms' = IF MeshConsulted(ray) /\ Live.sphere = NoSphere /\ Live.nan = {}
                 THEN [geoms EXCEPT ![meshGeom].sphere = SphereRadius(Live.pos)]
                 ELSE geoms
    /\ last' = IF viewerDragging THEN ClickedDragging ELSE ClickedIdle
    /\ UNCHANGED <<shape, isEditMode, meshGeom, normalsCurrent, noseVertices, detection,
                   cpStore, passes, controlPoints, selectedControlPoint, isDragging,
                   listeners, sceneCPs, markers, edits>>

(***************************************************************************)
(* The functions published on window.noseEditor (re-published after every  *)
(* render, so they see the current hook state), and the resetNose that     *)
(* AnatomicalMeshEditor returns.                                           *)
(***************************************************************************)
Sliders == {"bridge", "tip", "nostrilWidth"}
\* A dispatcher that takes the tip slider for the bridge slider.
AdjustedWrongAxis(slider, pos, amount) ==
    CASE slider = "bridge" -> adjustNoseTip(pos, noseVertices, amount)
      [] slider = "tip" -> adjustNoseTip(pos, noseVertices, amount)
      [] slider = "nostrilWidth" -> adjustNostrilWidth(pos, noseVertices, amount)

Adjusted(slider, pos, amount) ==
    CASE slider = "bridge" -> adjustNoseBridge(pos, noseVertices, amount)
      [] slider = "tip" -> adjustNoseTip(pos, noseVertices, amount)
      [] slider = "nostrilWidth" -> adjustNostrilWidth(pos, noseVertices, amount)

\* One call of a slider function, while fewer than bound edits were made.
AdjustWithin(slider, amount, bound) ==
    /\ UNCHANGED <<shape, isEditMode, meshGeom, noseVertices, detection, cpStore,
                   passes, controlPoints, selectedControlPoint, isDragging, listeners,
                   sceneCPs, markers, selectedVertex, docListeners, viewerDragging,
                   viewerListeners>>
    /\ IF shape # 0
       THEN /\ edits < bound /\ Live.nan = {}
            /\ geoms' = [geoms EXCEPT ![meshGeom].pos = Adjusted(slider, Live.pos, amount)]
            /\ normalsCurrent' = TRUE
            /\ edits' = edits + 1
            /\ last' = NoStep
       ELSE /\ last' = WarnedAndReturned
            /\ UNCHANGED <<geoms, normalsCurrent, edits>>

Adjust(slider, amount) == AdjustWithin(slider, amount, MaxEdits)

\* Variants of ResetGeometry: a reset that copies the geometry the mesh has,
\* and one that hands the snapshot itself to the mesh.
ResetGeometryOfLive(original) == [object |-> "reset", contents |-> Clone(Live)]
ResetGeometryAliased(original) == [object |-> original, contents |-> geoms[original]]

\* "resetGeometry = originalGeometry.clone(); noseMesh.geometry = resetGeometry":
\* the object the mesh refers to afterwards, and its contents.
ResetGeometry(original) == [object |-> "reset", contents |-> Clone(geoms[original])]

\* "noseMesh.geometry.dispose()": the geometry loaded with the mesh is
\* referred to by nothing once the mesh has been given another one.
Disposed == [geoms EXCEPT !["loaded"] = NoGeometry]

\* useNoseAdjustments.resetNose, the function window.noseEditor publishes.
ResetNose ==
    /\ UNCHANGED <<shape, isEditMode, noseVertices, detection, cpStore, passes,
                   controlPoints, selectedControlPoint, isDragging, listeners, sceneCPs,
                   markers, selectedVertex, docListeners, viewerDragging,
                   viewerListeners, edits>>
    /\ IF shape # 0
       THEN /\ geoms' = [Disposed EXCEPT ![ResetGeometry("originalD").object] =
                                             ResetGeometry("originalD").contents]
            /\ meshGeom' = ResetGeometry("originalD").object
            /\ normalsCurrent' = TRUE
            /\ last' = NoStep
       ELSE /\ last' = WarnedAndReturned
            /\ UNCHANGED <<geoms, meshGeom, normalsCurrent>>

\* AnatomicalMeshEditor.resetNose: the same, then createAnatomicalControlMesh().
AnatomicalResetNose ==
    /\ UNCHANGED <<shape, isEditMode, noseVertices, detection, selectedControlPoint,
                   isDragging, listeners, markers, selectedVertex, docListeners,
                   viewerDragging, viewerListeners, edits>>
    /\ IF shape # 0
       THEN /\ passes < MaxPasses
            /\ geoms' = [Disposed EXCEPT ![ResetGeometry("originalA").object] =
                                             ResetGeometry("originalA").contents]
            /\ meshGeom' = ResetGeometry("originalA").object
            /\ normalsCurrent' = TRUE
            /\ passes' = passes + 1
            /\ sceneCPs' = sceneCPs \cup {passes + 1}
            /\ controlPoints' = passes + 1
            /\ cpStore' =
                  Collect([cpStore EXCEPT ![passes + 1] =
                              createAnatomicalControlMesh(geoms'[meshGeom'].pos)],
                          Referenced(controlPoints', selectedControlPoint, listeners))
            /\ last' = NoStep
       ELSE /\ last' = WarnedAndReturned
            /\ UNCHANGED <<geoms, meshGeom, normalsCurrent, passes, cpStore, sceneCPs,
                           controlPoints>>

Next ==
    \/ \E m \in 1 .. NumMeshes : SetModel(m)
    \/ ToggleEditMode
    \/ RenderFrame
    \/ \E ray \in Rays : MouseDown(ray)
    \/ \E target \in Targets \cup {<<>>} : MouseMove(target)
    \/ MouseUp
    \/ \E slider \in Sliders, amount \in SliderAmounts : Adjust(slider, amount)
    \/ ResetNose

\* The program as NoseEditor wires it: the resetNose that AnatomicalMeshEditor
\* returns is bound to resetAnatomicalNose there and never called.
Spec == Init /\ [][Next]_vars

\* The same with a caller of the hook's own resetNose.
NextHook == Next \/ AnatomicalResetNose
SpecHook == Init /\ [][NextHook]_vars

\* Loading and pointer interaction alone, over the whole catalogue of meshes.
NextPointer ==
    \/ \E m \in 1 .. NumCatalogue : SetModel(m)
    \/ ToggleEditMode
    \/ RenderFrame
    \/ \E ray \in Rays : MouseDown(ray)
    \/ \E target \in Targets \cup {<<>>} : MouseMove(target)
    \/ MouseUp
SpecPointer == Init /\ [][NextPointer]_vars

\* The detector's effect on its own, for meshes large enough to meet its
\* thresholds.  The regions are given by their sizes: the primary region is
\* the first a vertices, the sphere around the tip (a part of the primary
\* region, since size.x is at most the largest extent) its last b, and the
\* central window sorted by descending z the last c vertices, backwards.
\* A run whose try block throws ends in the catch block.
Range(lo, k) == [i \in 1 .. k |-> lo + i - 1]
Descending(hi, k) == [i \in 1 .. k |-> hi - i]
\* Sizes on both sides of every threshold of the chain.
VertexCounts == {67, 100}
PrimarySizes == {0, 10, 19, 20, 21, 30, 31, 35}
SphereSizes == {0, 9, 10, 11}
CentralSizes == {0, 1, 50, 51}
DetectorInputs ==
    [vertexCount : VertexCounts, primary : PrimarySizes, sphere : SphereSizes,
     central : CentralSizes, throws : BOOLEAN]
RunOf(in) ==
    [noseRegion |-> Range(0, in.primary),
     noseTipRegion |-> Range(in.primary - Min2(in.sphere, in.primary),
                             Min2(in.sphere, in.primary)),
     central |-> Descending(in.vertexCount, in.central),
     vertexCount |-> in.vertexCount, threw |-> in.throws]

DetectorEffect(in) ==
    /\ detection' = RunOf(in)
    /\ noseVertices' = Detected(RunOf(in))
    /\ last' = NoStep
    /\ UNCHANGED <<shape, isEditMode, geoms, meshGeom, normalsCurrent, cpStore, passes,
                   controlPoints, selectedControlPoint, isDragging, listeners, sceneCPs,
                   markers, selectedVertex, docListeners, viewerDragging,
                   viewerListeners, edits>>

NextDetector == \E in \in DetectorInputs : DetectorEffect(in)
SpecDetector == Init /\ [][NextDetector]_vars

\* The sliders on their own: two calls in a row, with amounts of both
\* signs, on a mesh whose classified set is the detector's choice or, after
\* a throw, every vertex.
BothAmounts == {20, 0 - 20}
SliderStep(slider, amount) == AdjustWithin(slider, amount, MaxSliderSteps)
LoadClassified(m, threw) ==
    LoadModel(m, [DetectorRegions(ShapeOf(m)) EXCEPT !.threw = threw])
NextSliders ==
    \/ \E m \in 1 .. NumCatalogue, threw \in BOOLEAN : LoadClassified(m, threw)
    \/ \E slider \in Sliders, amount \in BothAmounts : SliderStep(slider, amount)
SpecSliders == Init /\ [][NextSliders]_vars

\* ModelViewer's canvas clicks among mesh changes, edit-mode toggles and
\* pointer releases.
NextViewer ==
    \/ \E m \in 1 .. NumMeshes : SetModel(m)
    \/ ToggleEditMode
    \/ \E ray \in Rays : CanvasClick(ray)
    \/ MouseUp
SpecViewer == Init /\ [][NextViewer]_vars

\* The assignment loop of createAnatomicalControlMesh over a family of
\* meshes: the nose-like surface with its vertex 7 moved through the lower
\* front of the box, on both sides of every bound of the nostril, columella,
\* tip and sidewall windows.
ProbeX == {420, 470, 500, 530, 580}
ProbeY == {380, 420, 440, 460, 480}
ProbeZ == {620, 700, 800, 950}
ProbeMesh(p) == [i \in Verts |-> IF i = 7 THEN p ELSE ShapeOf(1)[i]]
ProbeId(p) == NumCatalogue + 1 + p[1] + p[2] * 1000 + p[3] * 1000000
LoadProbe(p) == LoadMesh(ProbeId(p), ProbeMesh(p), DetectorRegions(ProbeMesh(p)))
NextAssign ==
    \/ \E x \in ProbeX, y \in ProbeY, z \in ProbeZ : LoadProbe(<<x, y, z>>)
    \/ ToggleEditMode
SpecAssign == Init /\ [][NextAssign]_vars

(***************************************************************************)
(* Properties.                                                             *)
(***************************************************************************)
Snapshots == {"originalA", "originalD"}
Intact(geo) == geo.pos = ShapeOf(shape) /\ geo.nan = {}

\* C1: whatever drags and slider adjustments came before, a call of resetNose
\* (the one window.noseEditor publishes or the one AnatomicalMeshEditor
\* returns) leaves every vertex of the mesh at exactly the position it had
\* when the mesh was loaded.
C1_ResetIsExact ==
    [][((ResetNose \/ AnatomicalResetNose) /\ shape # 0) => Intact(geoms'[meshGeom'])]_vars

\* A reset has given the mesh its own geometry again and, after an edit, the
\* mesh is back at the loaded positions.
C1_Witness ==
    /\ shape # 0 /\ meshGeom = "reset" /\ edits > 0
    /\ Intact(Live)

\* C2: the snapshots cloned when the mesh was loaded (AnatomicalMeshEditor's
\* and the detector's, which useNoseAdjustments resets from) keep the
\* positions they were created with, whatever pointer events, slider
\* adjustments and resets happen.
C2_SnapshotNeverWritten ==
    shape # 0 => \A g \in Snapshots : Intact(geoms[g])

\* After a reset the mesh was edited again: its geometry, cloned from the
\* snapshot, differs from the snapshot.
C2_Witness ==
    /\ shape # 0 /\ meshGeom = "reset" /\ edits > 0
    /\ ~Intact(Live)
    /\ \A g \in Snapshots : Intact(geoms[g])

\* C3: a reset through the resetNose that window.noseEditor publishes re-runs
\* the classification: afterwards the control points have the positions and
\* the owned vertices that the classification computes for the loaded mesh.
C3_ResetReclassifies ==
    [][(ResetNose /\ shape # 0 /\ controlPoints # 0)
          => (/\ controlPoints' # 0
              /\ \A r \in Regions :
                    LET atLoad == createAnatomicalControlMesh(ShapeOf(shape))[r]
                        cp == cpStore'[controlPoints'][r]
                    IN /\ cp.position = atLoad.position
                       /\ cp.vertexIndices = atLoad.vertexIndices)]_vars

\* A pointer-move that reached updateInfluencedVertices.
DragMoved == (\E target \in Targets : MouseMove(target)) /\ edits' # edits

\* Four times the squared radius of the mesh's bounding sphere, exactly.
Diameter2(pos) ==
    LET c2 == VAdd(Box3(pos).min, Box3(pos).max)
        d2 == [i \in Verts |-> Dist2(<<2 * pos[i][1], 2 * pos[i][2], 2 * pos[i][3]>>, c2)]
    IN CHOOSE m \in {d2[i] : i \in Verts} : \A j \in Verts : m >= d2[j]

\* C4: in one drag step no vertex moves by more than a tenth of the mesh's
\* bounding-sphere radius, wherever the pointer is and whether or not the
\* geometry's boundingSphere has been computed.
C4_StepWithinClamp ==
    [][DragMoved
          => \A i \in Verts \ geoms'[meshGeom'].nan :
                 4 * (100 \div ClampPercent) * (100 \div ClampPercent)
                       * Dist2(geoms'[meshGeom'].pos[i], Live.pos[i])
                     <= Diameter2(Live.pos)]_vars

\* The direct writes of the drag step that a pointer-move to target makes:
\* one per vertex the dragged control point owns.
DirectWrites(target) ==
    LET tasks == DirectTasks(MovedControlPoint(target))
    IN [k \in 1 .. Len(tasks) |->
          [distance2 |-> Dist2(Live.pos[tasks[k].v], target),
           before |-> Live.pos[tasks[k].v],
           after |-> RunTask([pos |-> Live.pos[tasks[k].v], nan |-> FALSE], tasks[k],
                             MoveVector(target))]]

C6_HandleWins ==
    [][\A ray \in Rays :
          (isEditMode /\ ray.mesh # NoVertex /\ (ray.cp # NoCP \/ ray.marker # NoVertex)
              /\ MouseDown(ray))
            => /\ ~MeshConsulted(ray)
               /\ ray.cp # NoCP => selectedControlPoint' = ray.cp
               /\ ray.marker # NoVertex => selectedVertex' = ray.marker]_vars

\* No nose vertex lies within the selection threshold (0.1) of the point
\* where the ray meets the mesh, or the ray misses the mesh.
NoAcceptableVertex(ray) ==
    ray.mesh # NoVertex
       => \A k \in 1 .. Len(noseVertices) :
              100 * Dist2(Live.pos[noseVertices[k]], Live.pos[ray.mesh]) >= One * One

C8_PointerDownStartsDrag ==
    [][\A ray \in Rays :
          (isEditMode /\ controlPoints # 0 /\ ray.cp # NoCP /\ ray.cp[1] = controlPoints
              /\ MouseDown(ray))
            => (selectedControlPoint' = ray.cp /\ isDragging')]_vars

\* C9: after every pointer-up nothing is selected, neither a control point
\* nor a vertex.
C9_ReleaseClearsSelection ==
    [][MouseUp => (selectedControlPoint' = NoCP /\ selectedVertex' = NoVertex)]_vars

\* C10: after every classification pass no vertex index is in the
\* vertexIndices of two control points, nor twice in those of one.
C10_OwnedSetsDisjoint ==
    \A g \in 1 .. MaxPasses :
        /\ \A r, q \in Regions :
              r # q => \A j \in 1 .. Len(cpStore[g][r].vertexIndices),
                         k \in 1 .. Len(cpStore[g][q].vertexIndices) :
                           cpStore[g][r].vertexIndices[j] # cpStore[g][q].vertexIndices[k]
        /\ \A r \in Regions :
              \A j, k \in 1 .. Len(cpStore[g][r].vertexIndices) :
                  j # k => cpStore[g][r].vertexIndices[j] # cpStore[g][r].vertexIndices[k]

\* A pass made after a reset of an edited mesh: several control points own
\* vertices, one of them more than one.
C10_Witness ==
    /\ meshGeom = "reset" /\ edits > 0 /\ controlPoints = passes /\ passes > 1
    /\ Len(cpStore[controlPoints]["tip"].vertexIndices) > 1
    /\ cpStore[controlPoints]["bridge"].vertexIndices # <<>>

\* C11: whenever the control-point list is non-empty it has exactly seven
\* entries, one for each of the seven regions, and no region has two.
C11_SevenControlPoints ==
    controlPoints # 0 =>
        LET list == ControlPointList(controlPoints)
        IN /\ Len(list) = 7
           /\ {list[k].region : k \in 1 .. Len(list)}
                 = {"bridge", "tip", "leftNostril", "rightNostril", "leftSidewall",
                    "rightSidewall", "columella"}
           /\ \A j, k \in 1 .. Len(list) : j # k => list[j].region # list[k].region

\* Edit mode was left and entered again and the hook's reset has run: the
\* list in force is that of a later pass.
C11_Witness ==
    /\ isEditMode /\ listeners.on /\ meshGeom = "reset"
    /\ controlPoints # 0 /\ controlPoints = passes /\ passes = MaxPasses
    /\ Len(ControlPointList(controlPoints)) = 7

\* C12: every control point a classification pass creates has
\* influenceRadius > 0, for every loaded mesh.
C12_InfluenceRadiusPositive ==
    controlPoints # 0 =>
        \A k \in 1 .. Len(ControlPointList(controlPoints)) :
            ControlPointList(controlPoints)[k].influenceRadius > 0

OwnedIn(g) ==
    UNION {{cpStore[g][r].vertexIndices[k] : k \in 1 .. Len(cpStore[g][r].vertexIndices)} :
             r \in Regions}

\* C14: a drag step moves no vertex that the classification of the mesh, the
\* control points in force, assigned to no control point.
C14_UnownedVerticesRigid ==
    [][\A target \in Targets :
          (DragReady /\ controlPoints # 0 /\ edits' = edits + 1 /\ MouseMove(target))
            => \A v \in Verts \ OwnedIn(controlPoints) :
                  /\ geoms'[meshGeom'].pos[v] = Live.pos[v]
                  /\ v \notin geoms'[meshGeom'].nan]_vars

\* The frame of one call of updateInfluencedVertices: it writes only vertices
\* owned by the control point it is given or by one of the control points of
\* the list it filters.
DragWritesOnlyOwned ==
    [][\A target \in Targets :
          (DragReady /\ edits' = edits + 1 /\ MouseMove(target))
            => \A v \in Verts \ (OwnedIn(listeners.sel[1]) \cup OwnedIn(listeners.cps)) :
                  /\ geoms'[meshGeom'].pos[v] = Live.pos[v]
                  /\ v \notin geoms'[meshGeom'].nan]_vars

\* C15: an edit operation (resetNose, adjustNoseBridge, adjustNoseTip,
\* adjustNostrilWidth) requested while no mesh is loaded ends in a failure
\* raised to the caller, not in a normal return.
C15_MissingMeshIsHardFailure ==
    [][(shape = 0
          /\ (\/ ResetNose
              \/ AnatomicalResetNose
              \/ \E slider \in Sliders, amount \in SliderAmounts : Adjust(slider, amount)))
         => last' = "thrown"]_vars

\* C16: the tip anchor is the vertex of maximum z in the tight window
\* (nx in [0.45, 0.55], ny in [0.45, 0.6], nz > 0.7) when that window holds a
\* vertex; else the vertex of maximum z in the relaxed window (nx in
\* [0.4, 0.6], ny in [0.4, 0.65], nz > 0.6) when that one holds a vertex; else
\* the point (C.x, C.y, C.z + S.z / 2).
C16_TipChain ==
    (controlPoints # 0 /\ edits = 0 /\ shape # 0) =>
        LET pos == Live.pos
            lo == [k \in 1 .. 3 |-> MinOver(pos, k)]
            S == [k \in 1 .. 3 |-> MaxOver(pos, k) - MinOver(pos, k)]
            \* a <= n, n <= c, n > a for the normalised coordinate n of axis k,
            \* in hundredths; all false when the extent is zero
            Within(i, k, a, c) ==
                /\ S[k] > 0
                /\ a * S[k] <= 100 * (pos[i][k] - lo[k])
                /\ 100 * (pos[i][k] - lo[k]) <= c * S[k]
            Beyond(i, k, a) == S[k] > 0 /\ 100 * (pos[i][k] - lo[k]) > a * S[k]
            tight == {i \in Verts :
                        Within(i, 1, 45, 55) /\ Within(i, 2, 45, 60) /\ Beyond(i, 3, 70)}
            relaxed == {i \in Verts :
                          Within(i, 1, 40, 60) /\ Within(i, 2, 40, 65) /\ Beyond(i, 3, 60)}
            anchor == cpStore[controlPoints]["tip"].position
            MaxZOf(set) ==
                /\ \E i \in set : anchor = pos[i]
                /\ \A i \in set : pos[i][3] <= anchor[3]
        IN /\ tight # {} => MaxZOf(tight)
           /\ (tight = {} /\ relaxed # {}) => MaxZOf(relaxed)
           /\ (tight = {} /\ relaxed = {})
                 => /\ 2 * anchor[1] = 2 * lo[1] + S[1]
                    /\ 2 * anchor[2] = 2 * lo[2] + S[2]
                    /\ 2 * anchor[3] = (2 * lo[3] + S[3]) + S[3]

\* The blunt mesh is classified: no vertex in the tight window, the anchor is
\* the front-most vertex of the relaxed window.
C16_Witness ==
    /\ controlPoints # 0 /\ edits = 0 /\ shape = 3
    /\ TipSearch(Live.pos).step = "relaxed"
    /\ cpStore[controlPoints]["tip"].position = <<420, 500, 800>>

\* C17: every vertex a control point owns lies at a distance below 0.2 of
\* the largest box extent from that control point, and every vertex whose
\* distance to the control point it is finally assigned to (the nearest one,
\* or the one a window override names) is not below it is owned by none.
C17_OwnedWithinMaxInfluence ==
    (controlPoints # 0 /\ edits = 0 /\ shape # 0) =>
        LET pos == Live.pos
            b == Box3(pos)
            pass == cpStore[controlPoints]
            cpos == [r \in Regions |-> pass[r].position]
            Near(v, r) == 25 * Dist2(pos[v], cpos[r]) < MaxExtent(b) * MaxExtent(b)
            final(v) == WindowOverride(b, pos[v], Nearest(pos[v], cpos).region)
        IN /\ \A r \in Regions :
                 \A k \in 1 .. Len(pass[r].vertexIndices) : Near(pass[r].vertexIndices[k], r)
           /\ \A v \in Verts :
                 (~FrontFilterSkips(b, pos[v], cpos["tip"]) /\ ~Near(v, final(v)))
                    => v \notin OwnedIn(controlPoints)

\* C18: every vertex the bridge control point owns lies inside the bridge
\* window: ny > 0.55, |nx - 0.5| < 0.15, nz > 0.6.
C18_BridgeOwnsOnlyWindow ==
    (controlPoints # 0 /\ edits = 0 /\ shape # 0) =>
        LET pos == Live.pos
            lo == [k \in 1 .. 3 |-> MinOver(pos, k)]
            S == [k \in 1 .. 3 |-> MaxOver(pos, k) - MinOver(pos, k)]
            \* 100 * n for the normalised coordinate n of axis k, times S[k]
            N(v, k) == 100 * (pos[v][k] - lo[k])
            InWindow(v) ==
                /\ S[1] > 0 /\ S[2] > 0 /\ S[3] > 0
                /\ N(v, 2) > 55 * S[2]
                /\ N(v, 1) - 50 * S[1] < 15 * S[1] /\ 50 * S[1] - N(v, 1) < 15 * S[1]
                /\ N(v, 3) > 60 * S[3]
            owned == cpStore[controlPoints]["bridge"].vertexIndices
        IN \A k \in 1 .. Len(owned) : InWindow(owned[k])

\* The vertex indices of a sequence of indices.
IndicesOf(seq) == {seq[k] : k \in 1 .. Len(seq)}

\* Every factor a drag step applies to a vertex of another control point is
\* NaN or lies between 0 and the cross-region weight.
CrossFactorBounded ==
    \A target \in Targets :
        (DragReady /\ Live.nan = {}) =>
            LET others == OtherControlPoints(listeners.sel)
                modelSize == MaxExtent(Box3(Live.pos))
            IN \A j \in 1 .. Len(others) :
                   LET tasks == CrossTasks(MovedControlPoint(target), others[j], modelSize)
                   IN \A k \in 1 .. Len(tasks) :
                          LET f == TaskFactor(Live.pos[tasks[k].v], tasks[k])
                          IN f = NaNFactor \/ (0 <= f /\ f <= 10 * CrossWeightPercent)

\* C19: in one drag step every vertex owned by another control point moves by
\* strictly less than every vertex the dragged control point owns, and no
\* factor applied to another control point's vertex exceeds the cross-region
\* weight.
C19_NeighboursMoveLess ==
    [][\A target \in Targets :
          (DragReady /\ edits' = edits + 1 /\ MouseMove(target))
            => LET dragged == IndicesOf(CP(listeners.sel).vertexIndices)
                   others == Verts \ dragged
                   after == geoms'[meshGeom']
                   Moved2(v) == Dist2(after.pos[v], Live.pos[v])
               IN /\ CrossFactorBounded
                  /\ \A u \in dragged, w \in others \cap OwnedIn(listeners.cps) :
                         (u \notin after.nan /\ w \notin after.nan)
                            => Moved2(w) < Moved2(u)]_vars

\* C20: a drag step that writes a vertex position ends with the normals
\* recomputed after its last write, and no step that changes the positions
\* of the mesh's geometry ends with stale normals.
C20_NormalsAfterWrites ==
    [][(\/ \E target \in Targets :
              /\ DragReady /\ edits' = edits + 1
              /\ Len(updateEffects(MovedControlPoint(target),
                                    OtherControlPoints(listeners.sel),
                                    MaxExtent(Box3(Live.pos)))) > 1
              /\ MouseMove(target)
        \/ (shape' = shape /\ shape # 0 /\ geoms'[meshGeom'].pos # Live.pos))
          => normalsCurrent']_vars

\* A drag step has moved vertices of the mesh, both of the dragged control
\* point and of another one, and left the normals current.
C20_Witness ==
    /\ DragReady /\ edits = 1 /\ normalsCurrent
    /\ CP(listeners.sel).position \in Targets
    /\ \E u \in IndicesOf(CP(listeners.sel).vertexIndices) : Live.pos[u] # ShapeOf(shape)[u]
    /\ \E w \in Verts \ IndicesOf(CP(listeners.sel).vertexIndices) :
           Live.pos[w] # ShapeOf(shape)[w]

\* C21: a pointer-down whose ray meets the mesh and no marker or handle selects
\* the classified vertex nearest to the intersection point exactly when that
\* distance is strictly below 0.1; otherwise the selection and the document
\* listeners stay as they were; a vertex outside noseVertices is never taken.
C21_PickerScansClassifiedSet ==
    [][\A ray \in Rays :
          (/\ isEditMode /\ shape # 0 /\ ray.cp = NoCP /\ ray.marker = NoVertex
           /\ ray.mesh # NoVertex /\ MouseDown(ray))
            => LET point == Live.pos[ray.mesh]
                   classified == IndicesOf(noseVertices)
                   near == {v \in classified :
                               \A w \in classified :
                                   Dist2(Live.pos[v], point) <= Dist2(Live.pos[w], point)}
                   accepted == {v \in near : 100 * Dist2(Live.pos[v], point) < One * One}
               IN IF accepted # {}
                  THEN selectedVertex' \in accepted /\ docListeners'
                  ELSE selectedVertex' = selectedVertex /\ docListeners' = docListeners]_vars

\* The picker has just taken a classified vertex from a mesh intersection.
C21_Witness ==
    /\ isEditMode /\ shape # 0 /\ docListeners /\ last = PickedOnMesh
    /\ selectedVertex \in IndicesOf(noseVertices)

\* C22: the detector uses the primary region when it has at least 20 and at
\* most 30% of the vertices; failing that the sphere when it has at least 10;
\* failing that the first 50 of the sorted central window when there is one;
\* failing that the primary region; and all vertex indices when a step threw.
C22_FallbacksInOrder ==
    LET run == detection
        primaryOk == /\ Len(run.noseRegion) >= 20
                     /\ 100 * Len(run.noseRegion) <= 30 * run.vertexCount
        sphereOk == Len(run.noseTipRegion) >= 10
        centralOk == Len(run.central) >= 1
    IN /\ run.threw => noseVertices = AllVertices(run.vertexCount)
       /\ (~run.threw /\ primaryOk) => noseVertices = run.noseRegion
       /\ (~run.threw /\ ~primaryOk /\ sphereOk) => noseVertices = run.noseTipRegion
       /\ (~run.threw /\ ~primaryOk /\ ~sphereOk /\ centralOk)
             => /\ Len(noseVertices) = Min2(50, Len(run.central))
                /\ \A k \in 1 .. Len(noseVertices) : noseVertices[k] = run.central[k]
       /\ (~run.threw /\ ~primaryOk /\ ~sphereOk /\ ~centralOk)
             => noseVertices = run.noseRegion

\* The sphere step was taken after the primary region proved too large: 21
\* of 67 vertices are more than 30%, and the sphere holds ten of them.
C22_Witness ==
    /\ ~detection.threw /\ detection.vertexCount = 67 /\ Len(detection.noseRegion) = 21
    /\ Len(detection.noseTipRegion) = 10 /\ noseVertices = detection.noseTipRegion

\* C23: adjustNoseBridge changes only y coordinates, adjustNoseTip only z,
\* adjustNostrilWidth only x, and none of them changes a vertex outside
\* noseVertices.
C23_SlidersMoveOneAxis ==
    [][\A slider \in Sliders, amount \in BothAmounts :
          (shape # 0 /\ SliderStep(slider, amount))
            => LET axis == CASE slider = "bridge" -> 2
                             [] slider = "tip" -> 3
                             [] slider = "nostrilWidth" -> 1
                   after == geoms'[meshGeom'].pos
               IN \A v \in Verts :
                     /\ \A k \in {1, 2, 3} \ {axis} : after[v][k] = Live.pos[v][k]
                     /\ v \notin IndicesOf(noseVertices) => after[v] = Live.pos[v]]_vars

\* One call has widened the nostrils: vertex 4 has moved along x, while
\* vertex 0, classified as well, has stayed.
C23_Witness ==
    /\ shape = 1 /\ edits = 1 /\ passes = 0 /\ detection.threw
    /\ Live.pos[4][1] # ShapeOf(1)[4][1]
    /\ Live.pos[4][2] = ShapeOf(1)[4][2] /\ Live.pos[4][3] = ShapeOf(1)[4][3]
    /\ Live.pos[0] = ShapeOf(1)[0]

\* C24: in every drag step the dragged control point moves by the same
\* clamped move vector that is applied to its vertices.
C24_HandleMovesByMoveVector ==
    [][\A target \in Targets :
          (DragReady /\ edits' = edits + 1 /\ MouseMove(target))
            => VSub(cpStore'[listeners.sel[1]][listeners.sel[2]].position,
                    CP(listeners.sel).position) = MoveVector(target)]_vars

\* C25: isDragging is true only while a control point is selected.
C25_DraggingImpliesSelection == isDragging => selectedControlPoint # NoCP

\* C26: while the document listeners of a pointer-down that picked vertex v
\* are registered, a pointer-move moves vertex v to the point it targets.
C26_MoveActsOnPickedVertex ==
    [][\A target \in Targets :
          (/\ isEditMode /\ shape # 0 /\ docListeners /\ selectedVertex # NoVertex
           /\ Live.nan = {} /\ MouseMove(target))
            => geoms'[meshGeom'].pos[selectedVertex] = target]_vars

\* C27: the scene holds the handle proxies of at most one classification
\* pass, and only of the pass that is the current control-point set.
C27_OneProxyPerRegion ==
    /\ Cardinality(sceneCPs) <= 1
    /\ sceneCPs \subseteq {controlPoints} \ {0}

\* C28: a slider call with amount a followed by the same slider's call with
\* amount -a returns every vertex to the position it had before the two.
C28_OppositeUndoes ==
    [][\A slider \in Sliders, amount \in BothAmounts :
          (/\ shape # 0 /\ edits = 1
           /\ Live.pos = Adjusted(slider, ShapeOf(shape), amount)
           /\ SliderStep(slider, 0 - amount))
            => geoms'[meshGeom'].pos = ShapeOf(shape)]_vars

\* C29: a document mouse-up that follows a canvas click in edit mode leaves
\* ModelViewer's isDragging false and the document listeners that click
\* added unregistered.
C29_ClickThenUpEndsDrag ==
    [][(last \in {ClickedIdle, ClickedDragging} /\ MouseUp)
          => /\ ~viewerDragging'
             /\ [edit |-> TRUE, drag |-> (last = ClickedDragging)]
                   \notin viewerListeners']_vars

\* C30: every vertex that passes the front-of-face filter and the distance
\* threshold, lies outside the bridge and the tip window and inside the
\* columella window (ny < 0.5, |nx - 0.5| < 0.1, nz > 0.65) is owned by the
\* columella control point.
C30_ColumellaOwnsWindow ==
    (controlPoints # 0 /\ edits = 0 /\ shape # 0) =>
        LET pos == Live.pos
            b == Box3(pos)
            pass == cpStore[controlPoints]
            cpos == [r \in Regions |-> pass[r].position]
        IN \A v \in Verts :
              (/\ ~FrontFilterSkips(b, pos[v], cpos["tip"])
               /\ WithinMaxInfluence(b, Nearest(pos[v], cpos).distance2)
               /\ ~BridgeWindow(b, pos[v]) /\ ~TipWindow(b, pos[v])
               /\ ColumellaWindow(b, pos[v]))
                 => v \in IndicesOf(pass["columella"].vertexIndices)

====
